---- MODULE Spec2Model ----
(***************************************************************************)
(* Model of src/app.py: the species list derived at start-up from the two  *)
(* tree tables, and the Dash callback update_mapa_camadas that recomputes  *)
(* the map figure and the checklist value on every UI event.               *)
(*                                                                         *)
(* Strings are sequences of code points (65 = "A", 66 = "B", 97 = "a",     *)
(* 98 = "b", 32 = " ", 46 = ".", 40 = "(", 127795 = the tree emoji), so    *)
(* that str.lower, str.strip, sorted(key=str.lower), `in`, isin and        *)
(* str.contains are computed as Python and pandas compute them.            *)
(* Python's data[0] is data[1] here (sequences start at 1).                *)
(***************************************************************************)
EXTENDS Integers, Sequences, FiniteSets, TLC

VARIABLES
    df,                 \* column nome_popular of arvores-tombadas.csv (l.9)
    gdf_censo,          \* column nome_popul of censo_arboreo.geojson (l.12)
    especies_options,   \* the checklist options, computed at start-up (l.37)
    search_term,        \* filtro-nome-arvore.value (l.145-151)
    filtro_especie,     \* filtro-especie.value (l.159-165)
    figure,             \* mapa-integrado-graph.figure (l.154)
    loaded,             \* the page-load call of the callback has happened
    trigger_id,         \* trigger of the last callback call (l.204)
    raised,             \* the last callback call ended in an exception
    prev_visible        \* figure.data[0].visible before the last call

vars == <<df, gdf_censo, especies_options, search_term, filtro_especie, figure, loaded,
          trigger_id, raised, prev_visible>>

----------------------------------------------------------------------------
(* Bounds of the model *)

\* largest number of records of the tombadas table
MaxTombadas == 2

\* largest number of records of the census table
MaxCenso == 1

\* a missing popular name (pandas NaN); not a string
NaN == <<-1>>

\* the search box before anything was typed (Python None); not a string
None == <<-2>>

\* popular names: "a", "A", "Ba"
NamePool == {<<97>>, <<65>>, <<66, 97>>}

\* texts typed in the search box: "", " ", " B", ".", "("
SearchPool == {<<>>, <<32>>, <<32, 66>>, <<46>>, <<40>>}

Range(s) == {s[i] : i \in 1..Len(s)}

SeqsUpTo(S, n) == UNION {[1..k -> S] : k \in 1..n}

\* a table column: at least one record, at least one name present
Columns(n) == {c \in SeqsUpTo(NamePool \cup {NaN}, n) : Range(c) # {NaN}}

----------------------------------------------------------------------------
(* Python string operations *)

\* str.lower() on the letters of the model
lower(s) == [i \in 1..Len(s) |-> IF s[i] \in 65..90 THEN s[i] + 32 ELSE s[i]]

RECURSIVE lstrip(_)
lstrip(s) == IF s # <<>> /\ Head(s) = 32 THEN lstrip(Tail(s)) ELSE s

RECURSIVE rstrip(_)
rstrip(s) ==
    IF s # <<>> /\ s[Len(s)] = 32 THEN rstrip(SubSeq(s, 1, Len(s) - 1)) ELSE s

\* str.strip()
strip(s) == rstrip(lstrip(s))

\* a < b for Python strings: lexicographic on code points
RECURSIVE str_lt(_, _)
str_lt(a, b) ==
    IF b = <<>> THEN FALSE
    ELSE IF a = <<>> THEN TRUE
    ELSE IF Head(a) # Head(b) THEN Head(a) < Head(b)
    ELSE str_lt(Tail(a), Tail(b))

\* needle in haystack, for Python strings (plain substring)
is_substring(needle, haystack) ==
    \E k \in 0..(Len(haystack) - Len(needle)) :
        \A j \in 1..Len(needle) : haystack[k + j] = needle[j]

\* re.compile(pat) succeeds: of the characters of the model only "(" is
\* special beyond ".", and an unclosed "(" is rejected (re.error)
re_compiles(pat) == \A j \in 1..Len(pat) : pat[j] # 40

\* re.search(pat, s) is not None, for a pattern of literals and "."
re_search(pat, s) ==
    \E k \in 0..(Len(s) - Len(pat)) :
        \A j \in 1..Len(pat) : pat[j] = 46 \/ pat[j] = s[k + j]

----------------------------------------------------------------------------
(* The species list, l.22-41 *)

\* Series.dropna().unique().tolist(): the names present, in order of first
\* appearance
RECURSIVE dropna_unique(_)
dropna_unique(col) ==
    IF col = <<>> THEN <<>>
    ELSE LET init == dropna_unique(SubSeq(col, 1, Len(col) - 1))
             x == col[Len(col)]
         IN  IF x = NaN \/ x \in Range(init) THEN init ELSE Append(init, x)

especies_tombadas == dropna_unique(df)

especies_censo == dropna_unique(gdf_censo)

censo_then_tombadas(tombadas, censo) == censo \o tombadas

\* the list the loop of l.29 runs over
loop_order(tombadas, censo) == tombadas \o censo

\* the loop of l.29-33, from its state (todo, unique_species, species_list)
RECURSIVE dedup_loop(_, _, _)
dedup_loop(todo, unique_species, acc) ==
    IF todo = <<>> THEN acc
    ELSE LET especie == Head(todo)
             lower_especie == lower(especie)
         IN  IF lower_especie \notin unique_species
             THEN dedup_loop(Tail(todo), unique_species \cup {lower_especie},
                             Append(acc, especie))
             ELSE dedup_loop(Tail(todo), unique_species, acc)

species_list == dedup_loop(loop_order(especies_tombadas, especies_censo), {}, <<>>)

sort_key_identity(x) == x

\* key=lambda x: x.lower()
sort_key(x) == lower(x)

\* x goes after every element whose key is not greater (sorted is stable)
RECURSIVE insert_sorted(_, _)
insert_sorted(x, s) ==
    IF s = <<>> THEN <<x>>
    ELSE IF str_lt(sort_key(x), sort_key(Head(s))) THEN <<x>> \o s
    ELSE <<Head(s)>> \o insert_sorted(x, Tail(s))

\* sorted(l, key=...)
RECURSIVE sorted(_)
sorted(l) ==
    IF l = <<>> THEN <<>>
    ELSE insert_sorted(l[Len(l)], sorted(SubSeq(l, 1, Len(l) - 1)))

lista_especies == sorted(species_list)

\* " " and the tree emoji, appended to the label of a registered species
tree_suffix == <<32, 127795>>

\* especie in especies_tombadas: exact comparison
is_tombada(especie) == especie \in Range(especies_tombadas)

\* the loop of l.37-41
build_options ==
    [i \in 1..Len(lista_especies) |->
        LET especie == lista_especies[i]
        IN  [label |-> IF is_tombada(especie) THEN especie \o tree_suffix
                       ELSE especie,
             value |-> especie]]

----------------------------------------------------------------------------
(* The map figure, l.43-91 and l.215-284.  A trace is its type, its name,  *)
(* its visible attribute and, for a marker trace, the rows of the table    *)
(* whose latitude, longitude and name it carries.  The polygons, colours   *)
(* and layout are the same in every figure the program builds.             *)

\* go.Choroplethmapbox(..., name="Areas de Conservacao", visible=...)
choropleth_ucn(visible) ==
    [type |-> "choroplethmapbox", name |-> "Areas de Conservacao",
     visible |-> visible, rows |-> <<>>]

\* go.Scattermapbox(..., name='Censo Arboreo') of the rows kept
scatter_censo(rows) ==
    [type |-> "scattermapbox", name |-> "Censo Arboreo",
     visible |-> TRUE, rows |-> rows]

\* go.Scattermapbox(..., name='Arvores Tombadas') of the rows kept
scatter_tombadas(rows) ==
    [type |-> "scattermapbox", name |-> "Arvores Tombadas",
     visible |-> TRUE, rows |-> rows]

initial_map_figure == [data |-> <<choropleth_ucn(TRUE)>>]

----------------------------------------------------------------------------
(* update_mapa_camadas, l.199-300 *)

\* search_term and search_term.strip() != ""
has_search(st) == st # None /\ st # <<>> /\ strip(st) # <<>>

\* st = search_term.strip().lower()
search_pattern(st) == lower(strip(st))

case_sensitive_mask(col, i, st) == col[i] # NaN /\ re_search(st, col[i])

\* col.str.lower().str.contains(st, na=False) at row i: st is a regular
\* expression (regex=True is the default of str.contains)
contains_mask(col, i, st) == col[i] # NaN /\ re_search(st, lower(col[i]))

\* the rows of a table left by l.240-254, as indices into the table
filtered_rows(col, st, selected_species) ==
    LET all == [i \in 1..Len(col) |-> i]
        searched == IF has_search(st)
                    THEN SelectSeq(all, LAMBDA i :
                             contains_mask(col, i, search_pattern(st)))
                    ELSE all
    IN  SelectSeq(searched, LAMBDA i : col[i] \in Range(selected_species))

tombadas_then_censo(censo_rows, tombadas_rows) ==
    (IF tombadas_rows # <<>> THEN <<scatter_tombadas(tombadas_rows)>> ELSE <<>>)
    \o (IF censo_rows # <<>> THEN <<scatter_censo(censo_rows)>> ELSE <<>>)

\* l.256-282: the census trace, then the tombadas trace, each only if it
\* has rows
marker_traces(censo_rows, tombadas_rows) ==
    (IF censo_rows # <<>> THEN <<scatter_censo(censo_rows)>> ELSE <<>>)
    \o (IF tombadas_rows # <<>> THEN <<scatter_tombadas(tombadas_rows)>> ELSE <<>>)

tree_traces_filter_if_selected(st, selected_species) ==
    IF selected_species # <<>>
    THEN marker_traces(filtered_rows(gdf_censo, st, selected_species),
                       filtered_rows(df, st, selected_species))
    ELSE marker_traces(filtered_rows(gdf_censo, st, especies_censo),
                       filtered_rows(df, st, especies_tombadas))

\* l.236-282: the traces appended after the conservation trace
tree_traces(st, selected_species) ==
    IF selected_species # <<>>
    THEN marker_traces(filtered_rows(gdf_censo, st, selected_species),
                       filtered_rows(df, st, selected_species))
    ELSE <<>>

\* l.240-247 run and str.contains cannot compile the pattern
filter_raises(st, selected_species) ==
    /\ selected_species # <<>>
    /\ has_search(st)
    /\ ~re_compiles(search_pattern(st))

always_visible(current_figure) == TRUE

\* l.215
ucn_visible(current_figure) == current_figure.data[1].visible

hide_ucn(current_figure) ==
    [current_figure EXCEPT !.data[1].visible = FALSE]

\* l.207
toggle_ucn(current_figure) ==
    [current_figure EXCEPT !.data[1].visible = ~current_figure.data[1].visible]

option_labels(species_options) ==
    [i \in 1..Len(species_options) |-> species_options[i].label]

\* l.211
option_values(species_options) ==
    [i \in 1..Len(species_options) |-> species_options[i].value]

\* l.210-213
apply_trigger(trigger, selected_species, species_options) ==
    IF trigger = "select-all-button" THEN option_values(species_options)
    ELSE IF trigger = "deselect-all-button" THEN <<>>
    ELSE selected_species

\* the result of one call: raised, or the two outputs (figure, value)
update_mapa_camadas(st, selected_species, trigger, current_figure, species_options) ==
    IF trigger = "toggle-ucn-button"
    THEN [raised |-> FALSE, figure |-> toggle_ucn(current_figure),
          value |-> selected_species]
    ELSE LET selected == apply_trigger(trigger, selected_species, species_options)
         IN  IF filter_raises(st, selected)
             THEN [raised |-> TRUE, figure |-> current_figure,
                   value |-> selected_species]
             ELSE [raised |-> FALSE,
                   figure |-> [data |-> <<choropleth_ucn(ucn_visible(current_figure))>>
                                         \o tree_traces(st, selected)],
                   value |-> selected]

----------------------------------------------------------------------------
(* The page and its events *)

Init ==
    /\ df \in Columns(MaxTombadas)
    /\ gdf_censo \in Columns(MaxCenso)
    /\ especies_options = build_options
    /\ search_term = None
    /\ filtro_especie = <<>>
    /\ figure = initial_map_figure
    /\ loaded = FALSE
    /\ trigger_id = ""
    /\ raised = FALSE
    /\ prev_visible = TRUE

\* Dash calls the callback once when the page loads, with nothing
\* triggered: l.201-202 raise PreventUpdate and no output changes
PageLoad ==
    /\ ~loaded
    /\ loaded' = TRUE
    /\ UNCHANGED <<df, gdf_censo, especies_options, search_term, filtro_especie, figure,
                   trigger_id, raised, prev_visible>>

\* one call of the callback with the inputs as they are after the event; a
\* call that raises leaves both outputs as they were
Callback(trigger, st, selected_species) ==
    \E r \in {update_mapa_camadas(st, selected_species, trigger, figure,
                                   especies_options)} :
        /\ loaded
        /\ search_term' = st
        /\ filtro_especie' = r.value
        /\ figure' = r.figure
        /\ trigger_id' = trigger
        /\ raised' = r.raised
        /\ prev_visible' = figure.data[1].visible
        /\ UNCHANGED <<df, gdf_censo, especies_options, loaded>>

\* a new text is committed in the search box
SearchChange ==
    \E t \in SearchPool :
        /\ t # search_term
        /\ Callback("filtro-nome-arvore", t, filtro_especie)

\* one box of the checklist is ticked (its value is appended) or unticked
ChecklistChange ==
    \E i \in 1..Len(especies_options) :
        LET v == especies_options[i].value
            new == IF v \in Range(filtro_especie)
                   THEN SelectSeq(filtro_especie, LAMBDA x : x # v)
                   ELSE Append(filtro_especie, v)
        IN  Callback("filtro-especie", search_term, new)

ToggleClick == Callback("toggle-ucn-button", search_term, filtro_especie)

SelectAllClick == Callback("select-all-button", search_term, filtro_especie)

DeselectAllClick == Callback("deselect-all-button", search_term, filtro_especie)

Next ==
    \/ PageLoad
    \/ SearchChange
    \/ ChecklistChange
    \/ ToggleClick
    \/ SelectAllClick
    \/ DeselectAllClick

Spec == Init /\ [][Next]_vars

----------------------------------------------------------------------------
(* Vocabulary of the properties *)

\* the triggers after which the callback rebuilds the figure
RebuildTriggers ==
    {"filtro-nome-arvore", "filtro-especie", "select-all-button",
     "deselect-all-button"}

\* a filtering search text is present: not missing, not empty, not blank
SearchGiven == search_term # None /\ strip(search_term) # <<>>

\* the popular name passes the filter as the specification words it: member
\* of the selection (exact) and, if a search text is given, containing it
\* as a substring once both are lower-cased
Passes(nome) ==
    /\ nome # NaN
    /\ nome \in Range(filtro_especie)
    /\ SearchGiven => is_substring(lower(strip(search_term)), lower(nome))

PassingRows(col) == {i \in 1..Len(col) : Passes(col[i])}

\* the rows shown by the marker layer of that name in the displayed figure
ShownRows(layer) ==
    UNION {Range(figure.data[k].rows) :
             k \in {j \in 2..Len(figure.data) : figure.data[j].name = layer}}

LayerPresent(layer) ==
    \E k \in 2..Len(figure.data) : figure.data[k].name = layer

IsConservation(trace) == trace.type = "choroplethmapbox"

Flagged(option) == option.label = option.value \o tree_suffix

NamesOf(col) == Range(col) \ {NaN}

----------------------------------------------------------------------------
(* C1 *)

\* C1: after every event other than a click on the toggle button (search
\* change, checklist change, select-all, deselect-all) the conservation
\* layer of the figure has the visible value it had before the event.
C1_VisiblePreserved ==
    trigger_id \in RebuildTriggers =>
        /\ IsConservation(figure.data[1])
        /\ figure.data[1].visible = prev_visible

\* a figure rebuilt with markers while the conservation layer is hidden
C1_Witness ==
    /\ trigger_id = "filtro-nome-arvore"
    /\ ~raised
    /\ prev_visible = FALSE
    /\ figure.data[1].visible = FALSE
    /\ Len(figure.data) > 1

----------------------------------------------------------------------------
(* C2 *)

\* C2: in every state the marker layers displayed are exactly those that
\* filtering the two tables with the current search text and the current
\* selection gives, after a toggle click as well.
C2_FigureTracksInputs ==
    /\ ShownRows("Censo Arboreo") = PassingRows(gdf_censo)
    /\ ShownRows("Arvores Tombadas") = PassingRows(df)
    /\ LayerPresent("Censo Arboreo") <=> PassingRows(gdf_censo) # {}
    /\ LayerPresent("Arvores Tombadas") <=> PassingRows(df) # {}

----------------------------------------------------------------------------
(* C3 *)

\* C3: the option list has no two entries equal when lower-cased, has for
\* every popular name of either table an entry equal to it when both are
\* lower-cased, and is in non-decreasing order of the lower-cased name.
C3_ListDedupSorted ==
    LET n == Len(especies_options)
        v(i) == especies_options[i].value
    IN  /\ \A i, j \in 1..n : i # j => lower(v(i)) # lower(v(j))
        /\ \A nome \in NamesOf(df) \cup NamesOf(gdf_censo) :
               \E i \in 1..n : lower(v(i)) = lower(nome)
        /\ \A i, j \in 1..n : i < j => ~str_lt(lower(v(j)), lower(v(i)))

\* two spellings of one species and a second species whose capital letter
\* sorts before the first one's small letter
C3_Witness ==
    /\ Len(especies_options) = 2
    /\ \E x, y \in NamesOf(df) \cup NamesOf(gdf_censo) :
           x # y /\ lower(x) = lower(y)
    /\ str_lt(especies_options[2].value, especies_options[1].value)

----------------------------------------------------------------------------
(* C4 *)

\* C4: an option carries the tree marker if and only if its species occurs
\* in the tombadas table, names compared lower-cased.
C4_FlagIffTombada ==
    \A i \in 1..Len(especies_options) :
        Flagged(especies_options[i]) <=>
            \E nome \in NamesOf(df) :
                lower(nome) = lower(especies_options[i].value)

\* a flagged species that the census spells with another letter case
C4_Witness ==
    \E i \in 1..Len(especies_options) :
        /\ Flagged(especies_options[i])
        /\ \E nome \in NamesOf(gdf_censo) :
               /\ nome # especies_options[i].value
               /\ lower(nome) = lower(especies_options[i].value)

----------------------------------------------------------------------------
(* C5 *)

\* C5: a click on the toggle button negates the visible value of data[0],
\* leaves every other layer and the rest of data[0] as they were, and
\* leaves the selected species as they were; a toggle click that follows a
\* toggle click gives back the visible value from before the first one.
C5_ToggleOnlyFlipsFlag ==
    [][trigger_id' = "toggle-ucn-button" =>
          /\ figure'.data[1].visible = ~figure.data[1].visible
          /\ figure' = [figure EXCEPT !.data[1].visible = figure'.data[1].visible]
          /\ filtro_especie' = filtro_especie
          /\ trigger_id = "toggle-ucn-button" =>
                 figure'.data[1].visible = prev_visible]_vars

\* the conservation layer shown again by a toggle click, markers in place
C5_Witness ==
    /\ trigger_id = "toggle-ucn-button"
    /\ prev_visible = FALSE
    /\ figure.data[1].visible = TRUE
    /\ Len(figure.data) = 3
    /\ filtro_especie # <<>>

----------------------------------------------------------------------------
(* C6 *)

\* C6: the selected species a call returns are the values of all checklist
\* options after select-all, none after deselect-all, and the incoming
\* selection after any other trigger: the selection as it was for a search
\* change or a toggle click, the selection with the one box changed for a
\* checklist change.
C6_SelectionOutput ==
    [][~raised' =>
          /\ trigger_id' = "select-all-button" =>
                 filtro_especie' = [i \in 1..Len(especies_options) |->
                                        especies_options[i].value]
          /\ trigger_id' = "deselect-all-button" => filtro_especie' = <<>>
          /\ trigger_id' \in {"filtro-nome-arvore", "toggle-ucn-button"} =>
                 filtro_especie' = filtro_especie
          /\ trigger_id' = "filtro-especie" =>
                 \E o \in Range(especies_options) :
                     \/ /\ o.value \notin Range(filtro_especie)
                        /\ filtro_especie' = Append(filtro_especie, o.value)
                     \/ /\ o.value \in Range(filtro_especie)
                        /\ filtro_especie' =
                               SelectSeq(filtro_especie, LAMBDA x : x # o.value)]_vars

\* select-all has returned two species, one of them registered
C6_Witness ==
    /\ trigger_id = "select-all-button"
    /\ ~raised
    /\ Len(filtro_especie) = 2
    /\ \E o \in Range(especies_options) : Flagged(o)

----------------------------------------------------------------------------
(* C7 *)

\* C7: every figure has exactly one conservation layer, as its first
\* layer, followed by at most one census marker layer and then at most one
\* tombadas marker layer, in that order.
C7_LayerOrder ==
    LET names == [k \in 1..Len(figure.data) |-> figure.data[k].name]
    IN  /\ Len(figure.data) >= 1
        /\ IsConservation(figure.data[1])
        /\ \A k \in 2..Len(figure.data) : ~IsConservation(figure.data[k])
        /\ Tail(names) \in {<<>>, <<"Censo Arboreo">>, <<"Arvores Tombadas">>,
                            <<"Censo Arboreo", "Arvores Tombadas">>}

\* a figure with both marker layers
C7_Witness ==
    /\ Len(figure.data) = 3
    /\ trigger_id \in RebuildTriggers

----------------------------------------------------------------------------
(* C8 *)

\* C8: after an event that rebuilds the figure and leaves no species
\* selected, the figure has the conservation layer and no marker layer,
\* whatever the search text.
C8_NoSelectionNoMarkers ==
    (trigger_id \in RebuildTriggers /\ filtro_especie = <<>>) =>
        /\ Len(figure.data) = 1
        /\ IsConservation(figure.data[1])

\* a search text that some record matches, with nothing selected
C8_Witness ==
    /\ trigger_id \in {"filtro-nome-arvore", "deselect-all-button"}
    /\ filtro_especie = <<>>
    /\ SearchGiven
    /\ \E nome \in NamesOf(df) :
           is_substring(lower(strip(search_term)), lower(nome))

----------------------------------------------------------------------------
(* C9 *)

\* C9: after a rebuild with a non-empty selection a record is shown in its
\* marker layer if and only if its name is in the selection and, when the
\* trimmed search text is not empty, its lower-cased name contains the
\* lower-cased trimmed search text; each marker layer is present if and
\* only if a record of its table passes.
C9_ShownIffPasses ==
    (trigger_id \in RebuildTriggers /\ ~raised /\ filtro_especie # <<>>) =>
        /\ \A i \in 1..Len(gdf_censo) :
               i \in ShownRows("Censo Arboreo") <=> Passes(gdf_censo[i])
        /\ \A i \in 1..Len(df) :
               i \in ShownRows("Arvores Tombadas") <=> Passes(df[i])
        /\ LayerPresent("Censo Arboreo") <=>
               \E i \in 1..Len(gdf_censo) : Passes(gdf_censo[i])
        /\ LayerPresent("Arvores Tombadas") <=>
               \E i \in 1..Len(df) : Passes(df[i])

----------------------------------------------------------------------------
(* C10 *)

\* C10: after a select-all click with no search text, every record of
\* either table that has a popular name is shown in its marker layer.
C10_SelectAllShowsAll ==
    (trigger_id = "select-all-button" /\ ~raised /\ ~SearchGiven) =>
        /\ \A i \in 1..Len(df) :
               df[i] # NaN => i \in ShownRows("Arvores Tombadas")
        /\ \A i \in 1..Len(gdf_censo) :
               gdf_censo[i] # NaN => i \in ShownRows("Censo Arboreo")

====
